---- MODULE Spec2Model ----
(***************************************************************************)
(* Model of chatInlineAnchorWidget.ts: the InlineAnchorWidget constructor  *)
(* (classification of the inline reference, display derivation, scoped     *)
(* context keys, listeners), the events its listeners react to, disposal,  *)
(* and the actions registered for the anchor's menus and keybindings.      *)
(***************************************************************************)
EXTENDS Integers, Sequences, FiniteSets, TLC

\* Number of widget instances constructed in a behaviour.
MaxWidgets == 1

\* How many openCodeEditor requests may be awaited at once.
MaxRequests == 2

--------------------------------------------------------------------------
\* URIs are records of the components the widget touches; a path is the
\* sequence of its segments, a trailing empty segment being a trailing '/'.

FileUri == [scheme |-> "file", path |-> <<"a", "b.txt">>, fragment |-> ""]

FolderUri == [scheme |-> "file", path |-> <<"a", "dir", "">>, fragment |-> ""]

FragUri == [scheme |-> "file", path |-> <<"a", "c.md">>, fragment |-> "top"]

\* A directory named without a trailing separator.
LibUri == [scheme |-> "file", path |-> <<"a", "lib">>, fragment |-> ""]

\* What the file system holds: the resources that are directories.
Directories == {FolderUri, LibUri}

LineRange == [startLineNumber |-> 3, startColumn |-> 1, endLineNumber |-> 5, endColumn |-> 9]

SymbolRange == [startLineNumber |-> 7, startColumn |-> 2, endLineNumber |-> 8, endColumn |-> 4]

FooSymbol == [name |-> "foo", kind |-> "Function",
              location |-> [uri |-> FileUri, range |-> SymbolRange]]

\* The payloads of IChatContentInlineReference.inlineReference:
\* URI | Location | IWorkspaceSymbol.
InlineReferences ==
    { FileUri, FolderUri, FragUri, LibUri,
      [uri |-> FileUri, range |-> LineRange],
      FooSymbol }

\* Documents a text model can exist for.
ModelUris == {FileUri}

\* The languages a text model can have.
LanguageIds == {"plaintext", "typescript"}

\* generateUuid: the n-th identifier it hands out.
GenerateUuid(n) == "uuid-" \o ToString(n)

--------------------------------------------------------------------------
\* Pure functions of the constructor.

\* The classifier taking a symbol descriptor for its location.
ClassifyReferenceByLocation(ref) ==
    IF "uri" \in DOMAIN ref
    THEN ref
    ELSE IF "name" \in DOMAIN ref
         THEN ref.location
         ELSE [uri |-> ref]

ClassifyReference(ref) ==
    IF "uri" \in DOMAIN ref
    THEN ref
    ELSE IF "name" \in DOMAIN ref
         THEN [kind |-> "symbol", symbol |-> ref]
         ELSE [uri |-> ref]

IsSymbol(d) == "kind" \in DOMAIN d /\ d.kind = "symbol"

LocationOf(d) == IF IsSymbol(d) THEN d.symbol.location ELSE d

ContextMenuId(d) ==
    IF IsSymbol(d) THEN "ChatInlineSymbolAnchorContext"
                   ELSE "ChatInlineResourceAnchorContext"

ContextMenuArg(d) == IF IsSymbol(d) THEN LocationOf(d) ELSE LocationOf(d).uri

HasRange(loc) == "range" \in DOMAIN loc

RangeText(range) ==
    ToString(range.startLineNumber) \o "-" \o ToString(range.endLineNumber)

RECURSIVE PathToString(_)
PathToString(path) ==
    IF path = <<>> THEN ""
    ELSE "/" \o Head(path) \o PathToString(Tail(path))

\* URI.with({ fragment }): the fragment is replaced, the rest is kept.
UriWith(uri, fragment) == [uri EXCEPT !.fragment = fragment]

UriToString(uri) ==
    uri.scheme \o "://" \o PathToString(uri.path)
        \o (IF uri.fragment = "" THEN "" ELSE "#" \o uri.fragment)

\* labelService.getUriBasenameLabel: the last non-empty path segment.
RECURSIVE GetUriBasenameLabel(_)
GetUriBasenameLabel(uri) ==
    IF uri.path = <<>> THEN ""
    ELSE IF uri.path[Len(uri.path)] # "" THEN uri.path[Len(uri.path)]
    ELSE GetUriBasenameLabel([uri EXCEPT !.path = SubSeq(uri.path, 1, Len(uri.path) - 1)])

\* labelService.getUriLabel(uri, { relative: true })
GetUriLabel(uri) == PathToString(uri.path)

\* SymbolKinds.toIcon
SymbolKindToIcon(kind) ==
    IF kind = "Function" THEN "symbol-function" ELSE "symbol-property"

PathEndsWithSlash(uri) == uri.path # <<>> /\ uri.path[Len(uri.path)] = ""

FileKindOf(uri) == IF PathEndsWithSlash(uri) THEN "FOLDER" ELSE "FILE"

\* getIconClasses, for a theme icon and for a resource of a file kind.
GetIconClassesForIcon(icon) == <<"codicon-" \o icon, "predefined-file-icon">>

\* languageService.guessLanguageIdByFilepathOrFirstLine: the language a
\* file name is associated with, "unknown" when there is none.
GuessLanguageId(uri) ==
    IF GetUriBasenameLabel(uri) = "b.txt" THEN "plaintext" ELSE "unknown"

\* detectLanguageId: the language of the document's text model when the
\* model service holds one, else the language guessed from the file name.
\* `models` is the model service: document uri -> "absent" or the
\* language of its text model.
DetectLanguageId(models, uri) ==
    IF uri \in DOMAIN models /\ models[uri] # "absent"
    THEN models[uri]
    ELSE GuessLanguageId(uri)

\* getIconClasses(modelService, languageService, resource, fileKind): a
\* folder gets its name class, a file its name class and the class of the
\* detected language.
GetIconClassesForResource(models, uri, fileKind) ==
    IF fileKind = "FOLDER"
    THEN <<"folder-icon", GetUriBasenameLabel(uri) \o "-name-folder-icon">>
    ELSE <<"file-icon", GetUriBasenameLabel(uri) \o "-name-file-icon">>
           \o (IF DetectLanguageId(models, uri) = "unknown"
               THEN <<>>
               ELSE <<DetectLanguageId(models, uri) \o "-lang-file-icon">>)

\* The label with the start line written twice.
IconTextStartLineOnly(d) ==
    IF IsSymbol(d)
    THEN d.symbol.name
    ELSE IF HasRange(LocationOf(d)) /\ ~IsSymbol(d)
         THEN GetUriBasenameLabel(d.uri) \o "#" \o ToString(d.range.startLineNumber)
                \o "-" \o ToString(d.range.startLineNumber)
         ELSE GetUriBasenameLabel(d.uri)

IconText(d) ==
    IF IsSymbol(d)
    THEN d.symbol.name
    ELSE IF HasRange(LocationOf(d)) /\ ~IsSymbol(d)
         THEN GetUriBasenameLabel(d.uri) \o "#" \o RangeText(d.range)
         ELSE GetUriBasenameLabel(d.uri)

IconClasses(models, d) ==
    IF IsSymbol(d)
    THEN <<"codicon">> \o GetIconClassesForIcon(SymbolKindToIcon(d.symbol.kind))
    ELSE GetIconClassesForResource(models, d.uri, FileKindOf(d.uri))

\* The fragment computed for Resource references only.
FragmentResourceOnly(d) ==
    IF HasRange(LocationOf(d)) /\ ~IsSymbol(d)
    THEN RangeText(LocationOf(d).range)
    ELSE ""

Fragment(d) ==
    IF HasRange(LocationOf(d)) THEN RangeText(LocationOf(d).range) ELSE ""

LinkTarget(d) == UriWith(LocationOf(d).uri, Fragment(d))

\* The element as the constructor leaves it.
RenderElement(models, d) ==
    [ classList   |-> {"chat-inline-anchor-widget", "show-file-icons"},
      iconClasses |-> IconClasses(models, d),
      iconLabel   |-> IconText(d),
      dataHref    |-> UriToString(LinkTarget(d)),
      hover       |-> GetUriLabel(LocationOf(d).uri),
      draggable   |-> TRUE ]

--------------------------------------------------------------------------
\* The actions registered with registerAction2: the menu an action is
\* contributed to (with the menu item's `when`), and its precondition.
\* A context-key expression is <<>> (none) or <<[key, negated]>>.

\* Add File to Chat contributed to the menu without its `when`.
AddFileToChatActionAlways ==
    [ id           |-> "chat.inlineResourceAnchor.addFileToChat",
      menu         |-> <<"ChatInlineResourceAnchorContext">>,
      when         |-> <<>>,
      precondition |-> <<>> ]

AddFileToChatAction ==
    [ id           |-> "chat.inlineResourceAnchor.addFileToChat",
      menu         |-> <<"ChatInlineResourceAnchorContext">>,
      when         |-> <<[key |-> "explorerResourceIsFolder", negated |-> TRUE]>>,
      precondition |-> <<>> ]

CopyResourceAction ==
    [ id           |-> "chat.inlineResourceAnchor.copyResource",
      menu         |-> <<>>,
      when         |-> <<>>,
      precondition |-> <<[key |-> "chatAnchorResource", negated |-> FALSE]>> ]

OpenToSideAction ==
    [ id           |-> "chat.inlineResourceAnchor.openToSide",
      menu         |-> <<>>,
      when         |-> <<>>,
      precondition |-> <<[key |-> "chatAnchorResource", negated |-> FALSE]>> ]

GoToDefinitionAction ==
    [ id           |-> "chat.inlineSymbolAnchor.goToDefinition",
      menu         |-> <<"ChatInlineSymbolAnchorContext">>,
      when         |-> <<>>,
      precondition |-> <<[key |-> "editorHasDefinitionProvider", negated |-> FALSE]>> ]

GoToReferencesAction ==
    [ id           |-> "chat.inlineSymbolAnchor.goToReferences",
      menu         |-> <<"ChatInlineSymbolAnchorContext">>,
      when         |-> <<>>,
      precondition |-> <<[key |-> "editorHasReferenceProvider", negated |-> FALSE]>> ]

RegisteredActions ==
    { AddFileToChatAction, CopyResourceAction, OpenToSideAction,
      GoToDefinitionAction, GoToReferencesAction }

--------------------------------------------------------------------------
VARIABLES
    inlineReference,    \* widget -> the payload it was constructed from
    data,               \* widget -> ContentRefData
    element,            \* widget -> what the constructor wrote to the element
    context,            \* widget -> the values of its scoped context keys
    active,             \* widget -> listeners and services still attached
    store,              \* widget -> what dispose() will release
    isDisposed,         \* widgets whose dispose() has run
    stat,               \* widget -> "none" | "pending" | "resolved" | "rejected"
    anchorId,           \* widget -> <<>> or <<uuid>>, the Lazy's value
    lastFocusedAnchor,  \* <<>> or <<widget>>
    modelState,         \* document uri -> "absent" or its model's language
    model,              \* widget -> "none" | "live" | "disposed": the text
                        \* model the constructor got from getModel
    definitionProvider, \* documents a definition provider is registered for
    referenceProvider,  \* documents a reference provider is registered for
    uuidCount,          \* identifiers generateUuid has handed out
    lastFocusedWidget,  \* <<>> or <<location>> of the focused chat widget
    openEditor,         \* the openCodeEditor requests a run() still awaits
    effect              \* what the handler that ran last did

vars == << inlineReference, data, element, context, active, store, isDisposed,
           stat, anchorId, lastFocusedAnchor, modelState, model,
           definitionProvider, referenceProvider, uuidCount,
           lastFocusedWidget, openEditor, effect >>

Widgets == DOMAIN data

Effect(op, w, kind, detail) ==
    [op |-> op, widget |-> w, kind |-> kind, detail |-> detail]

\* A step of the environment: no handler of this file produced an effect.
NoEffect == Effect("none", <<>>, "none", <<>>)

--------------------------------------------------------------------------
\* Scoped context keys.

\* modelService.getModel(uri)
GetModel(uri) == uri \in ModelUris /\ modelState[uri] # "absent"

\* model.isDisposed() of the model the widget's constructor captured.
ModelIsDisposed(w) == model[w] = "disposed"

\* updateContents reading the reference registry for the definition flag.
UpdateContentsFromReferenceRegistry(uri, definitionProviders, referenceProviders) ==
    [ editorHasDefinitionProvider |-> uri \in referenceProviders,
      editorHasReferenceProvider  |-> uri \in definitionProviders ]

\* updateContents: the values it sets on the two bound keys, given the
\* documents each registry has a provider for.
UpdateContents(uri, definitionProviders, referenceProviders) ==
    [ editorHasDefinitionProvider |-> uri \in definitionProviders,
      editorHasReferenceProvider  |-> uri \in definitionProviders ]

\* The folder flag's first value taken from the path's trailing separator.
InitialContextFolderFromPath(d) ==
    IF IsSymbol(d)
    THEN IF GetModel(LocationOf(d).uri)
         THEN UpdateContents(LocationOf(d).uri, definitionProvider, referenceProvider)
         ELSE <<>>
    ELSE [ chatAnchorResource       |-> UriToString(d.uri),
           resource                 |-> UriToString(d.uri),
           explorerResourceIsFolder |-> PathEndsWithSlash(d.uri) ]

\* The scoped context right after the constructor: nothing for a symbol
\* without a model, the two provider flags for a symbol with one, the
\* resource keys and the folder flag's default for a resource.
InitialContext(d) ==
    IF IsSymbol(d)
    THEN IF GetModel(LocationOf(d).uri)
         THEN UpdateContents(LocationOf(d).uri, definitionProvider, referenceProvider)
         ELSE <<>>
    ELSE [ chatAnchorResource       |-> UriToString(d.uri),
           resource                 |-> UriToString(d.uri),
           explorerResourceIsFolder |-> FALSE ]

\* IContextKey.set on a key of a scoped service: ignored once the service
\* is disposed.
ContextKeySet(w, values) ==
    IF "contextKeyService" \in active[w]
    THEN [context EXCEPT ![w] = values @@ @]
    ELSE context

\* The keys the context around a widget may hold a value for, and the
\* contexts it may be at the time a menu opens.
AmbientKeys == {"editorHasDefinitionProvider", "editorHasReferenceProvider"}

AmbientContexts == [AmbientKeys -> BOOLEAN]

\* The value an expression's key evaluates to in the widget's scope: the
\* scope's own value when it has bound the key, else the value of the
\* context around it, else unset.
ContextValue(w, key, ambient) ==
    IF key \in DOMAIN context[w] THEN context[w][key]
    ELSE IF key \in DOMAIN ambient THEN ambient[key]
    ELSE FALSE

ContextMatchesRules(w, expr, ambient) ==
    \/ expr = <<>>
    \/ /\ expr # <<>>
       /\ IF expr[1].negated THEN ~ContextValue(w, expr[1].key, ambient)
                             ELSE ContextValue(w, expr[1].key, ambient)

\* menuService.getMenuActions: the actions contributed to the menu whose
\* menu item's `when` holds in the scoped context.
GetMenuActions(menuId, w, ambient) ==
    { b \in RegisteredActions :
        /\ b.menu = <<menuId>>
        /\ ContextMatchesRules(w, b.when, ambient) }

\* Of the actions in the menu, those whose `precondition` holds: the
\* others are shown disabled.
EnabledActions(menuId, w, ambient) ==
    { b \in GetMenuActions(menuId, w, ambient) :
        ContextMatchesRules(w, b.precondition, ambient) }

--------------------------------------------------------------------------
\* What the constructor creates, and what it hands to this._register.

Created(d) ==
    {"contextKeyService", "click", "contextmenu", "hover", "dragstart"}
        \cup (IF IsSymbol(d) /\ GetModel(LocationOf(d).uri)
              THEN {"definitionProvider.onDidChange", "referenceProvider.onDidChange"}
              ELSE {})
        \cup (IF IsSymbol(d) THEN {} ELSE {"resourceContextKey"})

\* The click listener added but not handed to _register.
RegisteredWithoutClick(d) ==
    {"contextKeyService", "contextmenu", "hover", "dragstart"}
        \cup (IF IsSymbol(d) /\ GetModel(LocationOf(d).uri)
              THEN {"definitionProvider.onDidChange", "referenceProvider.onDidChange"}
              ELSE {})
        \cup (IF IsSymbol(d) THEN {} ELSE {"resourceContextKey"})

\* The scoped context key service created but not handed to _register.
RegisteredWithoutContextKeyService(d) ==
    {"click", "contextmenu", "hover", "dragstart"}
        \cup (IF IsSymbol(d) /\ GetModel(LocationOf(d).uri)
              THEN {"definitionProvider.onDidChange", "referenceProvider.onDidChange"}
              ELSE {})
        \cup (IF IsSymbol(d) THEN {} ELSE {"resourceContextKey"})

Registered(d) ==
    {"contextKeyService", "click", "contextmenu", "hover", "dragstart"}
        \cup (IF IsSymbol(d) /\ GetModel(LocationOf(d).uri)
              THEN {"definitionProvider.onDidChange", "referenceProvider.onDidChange"}
              ELSE {})
        \cup (IF IsSymbol(d) THEN {} ELSE {"resourceContextKey"})

--------------------------------------------------------------------------
Init ==
    /\ inlineReference = <<>>
    /\ data = <<>>
    /\ element = <<>>
    /\ context = <<>>
    /\ active = <<>>
    /\ store = <<>>
    /\ isDisposed = {}
    /\ stat = <<>>
    /\ anchorId = <<>>
    /\ lastFocusedAnchor = <<>>
    /\ modelState = [u \in ModelUris |-> "absent"]
    /\ model = <<>>
    /\ definitionProvider = {}
    /\ referenceProvider = {}
    /\ uuidCount = 0
    /\ lastFocusedWidget = <<>>
    /\ openEditor = <<>>
    /\ effect = NoEffect

\* The constructor returning with its listeners attached and the element
\* not yet written.
ConstructRenderDeferred(ref) ==
    LET w == Cardinality(Widgets) + 1
        d == ClassifyReference(ref)
    IN  /\ w <= MaxWidgets
        /\ inlineReference' = Append(inlineReference, ref)
        /\ data' = Append(data, d)
        /\ element' = Append(element, [RenderElement(modelState, d) EXCEPT !.iconClasses = <<>>,
                                       !.iconLabel = "", !.dataHref = ""])
        /\ context' = Append(context, InitialContext(d))
        /\ active' = Append(active, Created(d))
        /\ store' = Append(store, Registered(d))
        /\ anchorId' = Append(anchorId, <<>>)
        /\ stat' = Append(stat, IF IsSymbol(d) THEN "none" ELSE "pending")
        /\ model' = Append(model, IF IsSymbol(d) /\ GetModel(LocationOf(d).uri)
                                   THEN "live" ELSE "none")
        /\ effect' = Effect("construct", <<w>>, "none", <<>>)
        /\ UNCHANGED << isDisposed, lastFocusedAnchor, modelState,
                        definitionProvider, referenceProvider, uuidCount,
                    lastFocusedWidget, openEditor >>

\* The constructor numbering its label from a count all widgets share.
ConstructWithinNumbered(ref, limit) ==
    LET w == Cardinality(Widgets) + 1
        d == ClassifyReference(ref)
    IN  /\ w <= limit
        /\ inlineReference' = Append(inlineReference, ref)
        /\ data' = Append(data, d)
        /\ element' = Append(element, [RenderElement(modelState, d) EXCEPT !.iconLabel = @ \o " (" \o ToString(w) \o ")"])
        /\ context' = Append(context, InitialContext(d))
        /\ active' = Append(active, Created(d))
        /\ store' = Append(store, Registered(d))
        /\ anchorId' = Append(anchorId, <<>>)
        /\ stat' = Append(stat, IF IsSymbol(d) THEN "none" ELSE "pending")
        /\ model' = Append(model, IF IsSymbol(d) /\ GetModel(LocationOf(d).uri)
                                   THEN "live" ELSE "none")
        /\ effect' = Effect("construct", <<w>>, "none", <<>>)
        /\ UNCHANGED << isDisposed, lastFocusedAnchor, modelState,
                        definitionProvider, referenceProvider, uuidCount,
                    lastFocusedWidget, openEditor >>

\* new InlineAnchorWidget(element, inlineReference, ...), as long as fewer
\* than `limit` widgets exist.
ConstructWithin(ref, limit) ==
    LET w == Cardinality(Widgets) + 1
        d == ClassifyReference(ref)
    IN  /\ w <= limit
        /\ inlineReference' = Append(inlineReference, ref)
        /\ data' = Append(data, d)
        /\ element' = Append(element, RenderElement(modelState, d))
        /\ context' = Append(context, InitialContext(d))
        /\ active' = Append(active, Created(d))
        /\ store' = Append(store, Registered(d))
        /\ anchorId' = Append(anchorId, <<>>)
        /\ stat' = Append(stat, IF IsSymbol(d) THEN "none" ELSE "pending")
        /\ model' = Append(model, IF IsSymbol(d) /\ GetModel(LocationOf(d).uri)
                                   THEN "live" ELSE "none")
        /\ effect' = Effect("construct", <<w>>, "none", <<>>)
        /\ UNCHANGED << isDisposed, lastFocusedAnchor, modelState,
                        definitionProvider, referenceProvider, uuidCount,
                    lastFocusedWidget, openEditor >>

Construct(ref) == ConstructWithin(ref, MaxWidgets)

\* The click handler calling generateUuid on every click.
ClickRegeneratesId(w) ==
    /\ w \in Widgets
    /\ IF "click" \in active[w]
       THEN LET id == GenerateUuid(uuidCount + 1)
            IN  /\ anchorId' = [anchorId EXCEPT ![w] = <<id>>]
                /\ uuidCount' = uuidCount + 1
                /\ effect' = Effect("click", <<w>>, "telemetry",
                      [ event    |-> IF IsSymbol(data[w])
                                     THEN "chat.inlineAnchor.openSymbol"
                                     ELSE "chat.inlineAnchor.openResource",
                        anchorId |-> id ])
       ELSE /\ anchorId' = anchorId
            /\ uuidCount' = uuidCount
            /\ effect' = Effect("click", <<w>>, "none", <<>>)
    /\ UNCHANGED << inlineReference, data, element, context, active, store,
                    isDisposed, stat, lastFocusedAnchor, modelState, model,
                    definitionProvider, referenceProvider,
                    lastFocusedWidget, openEditor >>

\* A click on the element.
Click(w) ==
    /\ w \in Widgets
    /\ IF "click" \in active[w]
       THEN LET fresh == anchorId[w] = <<>>
                id == IF fresh THEN GenerateUuid(uuidCount + 1) ELSE anchorId[w][1]
            IN  /\ anchorId' = [anchorId EXCEPT ![w] = <<id>>]
                /\ uuidCount' = IF fresh THEN uuidCount + 1 ELSE uuidCount
                /\ effect' = Effect("click", <<w>>, "telemetry",
                      [ event    |-> IF IsSymbol(data[w])
                                     THEN "chat.inlineAnchor.openSymbol"
                                     ELSE "chat.inlineAnchor.openResource",
                        anchorId |-> id ])
       ELSE /\ anchorId' = anchorId
            /\ uuidCount' = uuidCount
            /\ effect' = Effect("click", <<w>>, "none", <<>>)
    /\ UNCHANGED << inlineReference, data, element, context, active, store,
                    isDisposed, stat, lastFocusedAnchor, modelState, model,
                    definitionProvider, referenceProvider,
                    lastFocusedWidget, openEditor >>

\* A contextmenu event on the element.
ContextMenu(w, ambient) ==
    /\ w \in Widgets
    /\ effect' =
         IF "contextmenu" \in active[w]
         THEN Effect("contextmenu", <<w>>, "menu",
                [ menuId  |-> ContextMenuId(data[w]),
                  arg     |-> ContextMenuArg(data[w]),
                  actions |-> { a.id : a \in
                      GetMenuActions(ContextMenuId(data[w]), w, ambient) },
                  enabled |-> { a.id : a \in
                      EnabledActions(ContextMenuId(data[w]), w, ambient) } ])
         ELSE Effect("contextmenu", <<w>>, "none", <<>>)
    /\ UNCHANGED << inlineReference, data, element, context, active, store,
                    isDisposed, stat, anchorId, lastFocusedAnchor,
                    modelState, model, definitionProvider, referenceProvider, uuidCount,
                    lastFocusedWidget, openEditor >>

\* A dragstart event on the element; the event may come without a
\* dataTransfer, and then no drag image is set (0: none).
DragStart(w, hasDataTransfer) ==
    /\ w \in Widgets
    /\ effect' =
         IF "dragstart" \in active[w]
         THEN Effect("dragstart", <<w>>, "drag",
                [ resources |-> <<LocationOf(data[w]).uri>>,
                  dragImage |-> IF hasDataTransfer THEN w ELSE 0 ])
         ELSE Effect("dragstart", <<w>>, "none", <<>>)
    /\ UNCHANGED << inlineReference, data, element, context, active, store,
                    isDisposed, stat, anchorId, lastFocusedAnchor,
                    modelState, model, definitionProvider, referenceProvider, uuidCount,
                    lastFocusedWidget, openEditor >>

\* The scoped contexts after a registry's onDidChange has called the
\* updateContents of every widget still listening to it.
FireOnDidChange(listener, definitionProviders, referenceProviders) ==
    [ w \in Widgets |->
        IF /\ listener \in active[w]
           /\ ~ModelIsDisposed(w)
           /\ "contextKeyService" \in active[w]
        THEN UpdateContents(LocationOf(data[w]).uri,
                            definitionProviders, referenceProviders) @@ context[w]
        ELSE context[w] ]

\* A definition provider is registered or unregistered for a document.
DefinitionProviderChange(uri) ==
    LET providers == IF uri \in definitionProvider
                     THEN definitionProvider \ {uri}
                     ELSE definitionProvider \cup {uri}
    IN  /\ definitionProvider' = providers
        /\ context' = FireOnDidChange("definitionProvider.onDidChange",
                                      providers, referenceProvider)
        /\ effect' = Effect("definitionProvider.onDidChange", <<>>, "none", <<>>)
        /\ UNCHANGED << inlineReference, data, element, active, store,
                        isDisposed, stat, anchorId, lastFocusedAnchor,
                        modelState, model, referenceProvider, uuidCount,
                    lastFocusedWidget, openEditor >>

\* A reference provider is registered or unregistered for a document.
ReferenceProviderChange(uri) ==
    LET providers == IF uri \in referenceProvider
                     THEN referenceProvider \ {uri}
                     ELSE referenceProvider \cup {uri}
    IN  /\ referenceProvider' = providers
        /\ context' = FireOnDidChange("referenceProvider.onDidChange",
                                      definitionProvider, providers)
        /\ effect' = Effect("referenceProvider.onDidChange", <<>>, "none", <<>>)
        /\ UNCHANGED << inlineReference, data, element, active, store,
                        isDisposed, stat, anchorId, lastFocusedAnchor,
                        modelState, model, definitionProvider, uuidCount,
                    lastFocusedWidget, openEditor >>

\* The model service creates the text model of a document.
LoadModel(uri, languageId) ==
    /\ modelState[uri] = "absent"
    /\ modelState' = [modelState EXCEPT ![uri] = languageId]
    /\ effect' = NoEffect
    /\ UNCHANGED << inlineReference, data, element, context, active, store,
                    isDisposed, stat, anchorId, lastFocusedAnchor, model,
                    definitionProvider, referenceProvider, uuidCount,
                    lastFocusedWidget, openEditor >>

\* The text model of a document is disposed and leaves the model
\* service; the widgets that hold it see isDisposed() from now on.
DisposeModel(uri) ==
    /\ modelState[uri] # "absent"
    /\ modelState' = [modelState EXCEPT ![uri] = "absent"]
    /\ model' = [ w \in Widgets |->
                    IF model[w] = "live" /\ LocationOf(data[w]).uri = uri
                    THEN "disposed" ELSE model[w] ]
    /\ effect' = NoEffect
    /\ UNCHANGED << inlineReference, data, element, context, active, store,
                    isDisposed, stat, anchorId, lastFocusedAnchor,
                    definitionProvider, referenceProvider, uuidCount,
                    lastFocusedWidget, openEditor >>

\* The .then callback also rewriting the icon from the stat's result.
StatResolveRefreshesIcon(w) ==
    /\ w \in Widgets
    /\ stat[w] = "pending"
    /\ stat' = [stat EXCEPT ![w] = "resolved"]
    /\ context' = ContextKeySet(w,
          [explorerResourceIsFolder |-> LocationOf(data[w]).uri \in Directories])
    /\ element' = [element EXCEPT ![w].iconClasses =
          GetIconClassesForResource(modelState, data[w].uri,
              IF data[w].uri \in Directories THEN "FOLDER" ELSE "FILE")]
    /\ effect' = Effect("stat.then", <<w>>, "none", <<>>)
    /\ UNCHANGED << inlineReference, data, active, store, isDisposed,
                    anchorId, lastFocusedAnchor, modelState, model,
                    definitionProvider, referenceProvider, uuidCount,
                    lastFocusedWidget, openEditor >>

\* fileService.stat(location.uri) resolves: the .then callback.
StatResolve(w) ==
    /\ w \in Widgets
    /\ stat[w] = "pending"
    /\ stat' = [stat EXCEPT ![w] = "resolved"]
    /\ context' = ContextKeySet(w,
          [explorerResourceIsFolder |-> LocationOf(data[w]).uri \in Directories])
    /\ effect' = Effect("stat.then", <<w>>, "none", <<>>)
    /\ UNCHANGED << inlineReference, data, element, active, store, isDisposed,
                    anchorId, lastFocusedAnchor, modelState, model,
                    definitionProvider, referenceProvider, uuidCount,
                    lastFocusedWidget, openEditor >>

\* The rejection of the stat left without a .catch.
StatRejectUnhandled(w) ==
    /\ w \in Widgets
    /\ stat[w] = "pending"
    /\ stat' = [stat EXCEPT ![w] = "rejected"]
    /\ effect' = Effect("stat.catch", <<w>>, "unhandledRejection", <<>>)
    /\ UNCHANGED << inlineReference, data, element, context, active, store,
                    isDisposed, anchorId, lastFocusedAnchor, modelState, model,
                    definitionProvider, referenceProvider, uuidCount,
                    lastFocusedWidget, openEditor >>

\* fileService.stat(location.uri) rejects: the .catch callback.
StatReject(w) ==
    /\ w \in Widgets
    /\ stat[w] = "pending"
    /\ stat' = [stat EXCEPT ![w] = "rejected"]
    /\ effect' = Effect("stat.catch", <<w>>, "none", <<>>)
    /\ UNCHANGED << inlineReference, data, element, context, active, store,
                    isDisposed, anchorId, lastFocusedAnchor, modelState, model,
                    definitionProvider, referenceProvider, uuidCount,
                    lastFocusedWidget, openEditor >>

\* widget.dispose(): everything in the store is released.
Dispose(w) ==
    /\ w \in Widgets
    /\ active' = [active EXCEPT ![w] = @ \ store[w]]
    /\ store' = [store EXCEPT ![w] = {}]
    /\ isDisposed' = isDisposed \cup {w}
    /\ effect' = Effect("dispose", <<w>>, "none", <<>>)
    /\ UNCHANGED << inlineReference, data, element, context, stat,
                    anchorId, lastFocusedAnchor, modelState, model, definitionProvider, referenceProvider, uuidCount,
                    lastFocusedWidget, openEditor >>

\* The chat widget service records a widget as the last focused anchor.
FocusAnchor(w) ==
    /\ w \in Widgets
    /\ lastFocusedAnchor' = <<w>>
    /\ effect' = NoEffect
    /\ UNCHANGED << inlineReference, data, element, context, active, store,
                    isDisposed, stat, anchorId, modelState, model,
                    definitionProvider, referenceProvider, uuidCount,
                    lastFocusedWidget, openEditor >>

\* The keybinding target without the test for a symbol anchor.
KeybindingTargetAnyKind(anchor) ==
    IF anchor = <<>> THEN <<>> ELSE <<LocationOf(data[anchor[1]]).uri>>

\* The target the two keybinding actions resolve: <<>> when run() returns
\* early, else <<uri>>.
KeybindingTarget(anchor) ==
    IF anchor = <<>> \/ IsSymbol(data[anchor[1]])
    THEN <<>>
    ELSE <<data[anchor[1]].uri>>

\* chat.inlineResourceAnchor.copyResource: run()
CopyResourceRun ==
    /\ effect' =
         IF KeybindingTarget(lastFocusedAnchor) = <<>>
         THEN Effect("copyResource", lastFocusedAnchor, "none", <<>>)
         ELSE Effect("copyResource", lastFocusedAnchor, "clipboard.writeResources",
                     KeybindingTarget(lastFocusedAnchor))
    /\ UNCHANGED << inlineReference, data, element, context, active, store,
                    isDisposed, stat, anchorId, lastFocusedAnchor,
                    modelState, model, definitionProvider, referenceProvider, uuidCount,
                    lastFocusedWidget, openEditor >>

\* chat.inlineResourceAnchor.openToSide: run()
OpenToSideRun ==
    /\ effect' =
         IF KeybindingTarget(lastFocusedAnchor) = <<>>
         THEN Effect("openToSide", lastFocusedAnchor, "none", <<>>)
         ELSE Effect("openToSide", lastFocusedAnchor, "executeCommand",
                     [ command |-> "explorer.openToSide",
                       args    |-> KeybindingTarget(lastFocusedAnchor) ])
    /\ UNCHANGED << inlineReference, data, element, context, active, store,
                    isDisposed, stat, anchorId, lastFocusedAnchor,
                    modelState, model, definitionProvider, referenceProvider, uuidCount,
                    lastFocusedWidget, openEditor >>

\* ChatAgentLocation of the chat widgets that can take the focus.
ChatLocations == {"panel", "editor"}

\* A chat widget takes the focus.
FocusChatWidget(location) ==
    /\ lastFocusedWidget # <<location>>
    /\ lastFocusedWidget' = <<location>>
    /\ effect' = NoEffect
    /\ UNCHANGED << inlineReference, data, element, context, active, store,
                    isDisposed, stat, anchorId, lastFocusedAnchor, modelState, model,
                    definitionProvider, referenceProvider, uuidCount,
                    openEditor >>

\* The focused chat widget goes away.
BlurChatWidget ==
    /\ lastFocusedWidget # <<>>
    /\ lastFocusedWidget' = <<>>
    /\ effect' = NoEffect
    /\ UNCHANGED << inlineReference, data, element, context, active, store,
                    isDisposed, stat, anchorId, lastFocusedAnchor, modelState, model,
                    definitionProvider, referenceProvider, uuidCount,
                    openEditor >>

\* The context menu that is showing offers the action, enabled.
MenuOffers(action) ==
    /\ effect.kind = "menu"
    /\ action.id \in effect.detail.enabled

\* Add File to Chat run with no check of the focused chat widget.
AddFileToChatRunUnchecked ==
    /\ MenuOffers(AddFileToChatAction)
    /\ effect' =
         IF lastFocusedWidget = <<>>
         THEN Effect("addFileToChat", effect.widget, "error", <<>>)
         ELSE Effect("addFileToChat", effect.widget, "attachContext",
                     [ key      |-> "file",
                       value    |-> effect.detail.arg,
                       location |-> lastFocusedWidget[1] ])
    /\ UNCHANGED << inlineReference, data, element, context, active, store,
                    isDisposed, stat, anchorId, lastFocusedAnchor, modelState, model,
                    definitionProvider, referenceProvider, uuidCount,
                    lastFocusedWidget, openEditor >>

\* chat.inlineResourceAnchor.addFileToChat: run(accessor, resource), picked
\* from the context menu with the menu's argument.
AddFileToChatRun ==
    /\ MenuOffers(AddFileToChatAction)
    /\ effect' =
         IF lastFocusedWidget = <<>>
         THEN Effect("addFileToChat", effect.widget, "none", <<>>)
         ELSE Effect("addFileToChat", effect.widget, "attachContext",
                     [ key      |-> "file",
                       value    |-> effect.detail.arg,
                       location |-> lastFocusedWidget[1] ])
    /\ UNCHANGED << inlineReference, data, element, context, active, store,
                    isDisposed, stat, anchorId, lastFocusedAnchor, modelState, model,
                    definitionProvider, referenceProvider, uuidCount,
                    lastFocusedWidget, openEditor >>

\* The openCodeEditor request both symbol actions start with.
OpenCodeEditorRequest(action, location) ==
    [ action    |-> action.id,
      resource  |-> location.uri,
      selection |-> [ startColumn     |-> location.range.startColumn,
                      startLineNumber |-> location.range.startLineNumber ] ]

\* run(accessor, location) of a symbol action up to its await: the editor
\* is asked to open the location.
SymbolActionRun(action) ==
    /\ MenuOffers(action)
    /\ Len(openEditor) < MaxRequests
    /\ openEditor' = Append(openEditor, OpenCodeEditorRequest(action, effect.detail.arg))
    /\ effect' = Effect(action.id, effect.widget, "openCodeEditor",
                        OpenCodeEditorRequest(action, effect.detail.arg))
    /\ UNCHANGED << inlineReference, data, element, context, active, store,
                    isDisposed, stat, anchorId, lastFocusedAnchor, modelState, model,
                    definitionProvider, referenceProvider, uuidCount,
                    lastFocusedWidget >>

\* What run() does after its await.
SymbolActionCommand(actionId) ==
    IF actionId = GoToReferencesAction.id
    THEN [ kind   |-> "executeCommand",
           detail |-> [command |-> "editor.action.goToReferences", args |-> <<>>] ]
    ELSE [ kind   |-> "DefinitionAction.run",
           detail |-> [openToSide |-> FALSE, openInPeek |-> FALSE, muteMessage |-> TRUE] ]

\* Go to Definition calling the definition action without awaiting the
\* editor.
GoToDefinitionRunNoAwait ==
    /\ MenuOffers(GoToDefinitionAction)
    /\ Len(openEditor) < MaxRequests
    /\ openEditor' = Append(openEditor,
            OpenCodeEditorRequest(GoToDefinitionAction, effect.detail.arg))
    /\ effect' = Effect(GoToDefinitionAction.id, effect.widget,
                        SymbolActionCommand(GoToDefinitionAction.id).kind,
                        SymbolActionCommand(GoToDefinitionAction.id).detail)
    /\ UNCHANGED << inlineReference, data, element, context, active, store,
                    isDisposed, stat, anchorId, lastFocusedAnchor, modelState, model,
                    definitionProvider, referenceProvider, uuidCount,
                    lastFocusedWidget >>

\* chat.inlineSymbolAnchor.goToDefinition: run(accessor, location)
GoToDefinitionRun == SymbolActionRun(GoToDefinitionAction)

\* chat.inlineSymbolAnchor.goToReferences: run(accessor, location)
GoToReferencesRun == SymbolActionRun(GoToReferencesAction)

\* The sequence without its i-th element.
Remove(seq, i) ==
    [ k \in 1 .. (Len(seq) - 1) |-> IF k < i THEN seq[k] ELSE seq[k + 1] ]

\* An awaited openCodeEditor resolves: run() goes on to its command.
OpenCodeEditorResolve(i) ==
    /\ i \in DOMAIN openEditor
    /\ openEditor' = Remove(openEditor, i)
    /\ effect' = Effect(openEditor[i].action, <<>>,
                        SymbolActionCommand(openEditor[i].action).kind,
                        SymbolActionCommand(openEditor[i].action).detail)
    /\ UNCHANGED << inlineReference, data, element, context, active, store,
                    isDisposed, stat, anchorId, lastFocusedAnchor, modelState, model,
                    definitionProvider, referenceProvider, uuidCount,
                    lastFocusedWidget >>

\* An awaited openCodeEditor rejects: run() rejects with it.
OpenCodeEditorReject(i) ==
    /\ i \in DOMAIN openEditor
    /\ openEditor' = Remove(openEditor, i)
    /\ effect' = Effect(openEditor[i].action, <<>>, "rejected", <<>>)
    /\ UNCHANGED << inlineReference, data, element, context, active, store,
                    isDisposed, stat, anchorId, lastFocusedAnchor, modelState, model,
                    definitionProvider, referenceProvider, uuidCount,
                    lastFocusedWidget >>

Next ==
    \/ \E ref \in InlineReferences : Construct(ref)
    \/ \E w \in Widgets : Click(w)
    \/ \E w \in Widgets, ambient \in AmbientContexts : ContextMenu(w, ambient)
    \/ \E w \in Widgets, hasDataTransfer \in BOOLEAN : DragStart(w, hasDataTransfer)
    \/ \E uri \in ModelUris : DefinitionProviderChange(uri)
    \/ \E uri \in ModelUris : ReferenceProviderChange(uri)
    \/ \E uri \in ModelUris, languageId \in LanguageIds : LoadModel(uri, languageId)
    \/ \E uri \in ModelUris : DisposeModel(uri)
    \/ \E w \in Widgets : StatResolve(w)
    \/ \E w \in Widgets : StatReject(w)
    \/ \E w \in Widgets : Dispose(w)
    \/ \E w \in Widgets : FocusAnchor(w)
    \/ CopyResourceRun
    \/ OpenToSideRun

Spec == Init /\ [][Next]_vars

\* The menu actions: a widget, its context menu, the providers and model
\* that gate the symbol actions, the chat widget's focus, and the runs.
NextMenu ==
    \/ \E ref \in InlineReferences : Construct(ref)
    \/ \E w \in Widgets, ambient \in AmbientContexts : ContextMenu(w, ambient)
    \/ \E uri \in ModelUris : DefinitionProviderChange(uri)
    \/ \E uri \in ModelUris, languageId \in LanguageIds : LoadModel(uri, languageId)
    \/ \E w \in Widgets : StatResolve(w)
    \/ \E location \in ChatLocations : FocusChatWidget(location)
    \/ BlurChatWidget
    \/ AddFileToChatRun
    \/ GoToDefinitionRun
    \/ GoToReferencesRun
    \/ \E i \in DOMAIN openEditor : OpenCodeEditorResolve(i)
    \/ \E i \in DOMAIN openEditor : OpenCodeEditorReject(i)

SpecMenu == Init /\ [][NextMenu]_vars

\* Widgets side by side: one more than MaxWidgets, with the events that
\* touch a widget between two constructions.
NextPair ==
    \/ \E ref \in InlineReferences : ConstructWithin(ref, MaxWidgets + 1)
    \/ \E w \in Widgets : Click(w)
    \/ \E w \in Widgets : StatResolve(w)
    \/ \E w \in Widgets : Dispose(w)
    \/ \E uri \in ModelUris, languageId \in LanguageIds : LoadModel(uri, languageId)
    \/ \E uri \in ModelUris : DisposeModel(uri)

SpecPair == Init /\ [][NextPair]_vars

--------------------------------------------------------------------------
\* Properties.

\* C1: a payload with a `name` field is classified as kind 'symbol' wrapping
\* the payload; a payload without one is a Resource (no kind) carrying the
\* payload's uri and range; exactly one variant is active.
C1_Classification ==
    \A w \in Widgets :
        LET ref == inlineReference[w]
            d   == data[w]
        IN  /\ "name" \in DOMAIN ref =>
                /\ d = [kind |-> "symbol", symbol |-> ref]
                /\ "uri" \notin DOMAIN d
            /\ "name" \notin DOMAIN ref =>
                /\ "kind" \notin DOMAIN d
                /\ "symbol" \notin DOMAIN d
                /\ d.uri = (IF "uri" \in DOMAIN ref THEN ref.uri ELSE ref)
                /\ ("range" \in DOMAIN ref) <=> ("range" \in DOMAIN d)
                /\ "range" \in DOMAIN ref => d.range = ref.range
            /\ ("kind" \in DOMAIN d) # ("uri" \in DOMAIN d)

C1_Witness ==
    \E w \in Widgets :
        /\ "name" \in DOMAIN inlineReference[w]
        /\ data[w].kind = "symbol"

\* C2: for a live Symbol anchor whose model is loaded, the reference flag
\* equals whether a reference provider is registered for the model.
C2_ReferenceFlagTracksReferenceProvider ==
    \A w \in Widgets :
        ( /\ IsSymbol(data[w])
          /\ w \notin isDisposed
          /\ "referenceProvider.onDidChange" \in active[w]
          /\ model[w] = "live" )
        => ( context[w].editorHasReferenceProvider
                = (LocationOf(data[w]).uri \in referenceProvider) )

\* C3: a context menu opened on a Symbol anchor while its scope holds the
\* definition flag at false does not contain Go to Definition, enabled or
\* disabled.
C3_NoGoToDefinitionWithoutProvider ==
    ( /\ effect.kind = "menu"
      /\ IsSymbol(data[effect.widget[1]])
      /\ "editorHasDefinitionProvider" \in DOMAIN context[effect.widget[1]]
      /\ ~context[effect.widget[1]].editorHasDefinitionProvider )
    => GoToDefinitionAction.id \notin effect.detail.actions

\* C4: a stat that settles after its widget was disposed changes no state
\* of the widget.
C4_StatAfterDisposeChangesNothing ==
    [][ \A w \in Widgets :
            ( w \in isDisposed /\ (StatResolve(w) \/ StatReject(w)) )
            => UNCHANGED << inlineReference, data, element, context, active,
                            store, isDisposed, anchorId, lastFocusedAnchor >> ]_vars

C4_Witness ==
    /\ effect.op = "stat.then"
    /\ effect.widget[1] \in isDisposed
    /\ data[effect.widget[1]].uri \in Directories
    /\ ~context[effect.widget[1]].explorerResourceIsFolder

\* C5: Copy and Open to Side do nothing when the tracker holds no anchor or
\* a Symbol anchor, and act on the tracked anchor's uri when it is a
\* Resource.
C5_KeybindingActionsResourceOnly ==
    effect.op \in {"copyResource", "openToSide"} =>
        IF lastFocusedAnchor = <<>> \/ IsSymbol(data[lastFocusedAnchor[1]])
        THEN effect.kind = "none"
        ELSE IF effect.op = "copyResource"
             THEN /\ effect.kind = "clipboard.writeResources"
                  /\ effect.detail = <<data[lastFocusedAnchor[1]].uri>>
             ELSE /\ effect.kind = "executeCommand"
                  /\ effect.detail.command = "explorer.openToSide"
                  /\ effect.detail.args = <<data[lastFocusedAnchor[1]].uri>>

C5_Witness ==
    /\ effect.op = "copyResource"
    /\ lastFocusedAnchor # <<>>
    /\ IsSymbol(data[lastFocusedAnchor[1]])
    /\ effect.kind = "none"

\* C6 as stated: no context menu of a Resource anchor whose resource is a
\* directory contains Add File to Chat.
C6_NeverOfferedForDirectory ==
    ( /\ effect.kind = "menu"
      /\ ~IsSymbol(data[effect.widget[1]])
      /\ data[effect.widget[1]].uri \in Directories )
    => AddFileToChatAction.id \notin effect.detail.actions

\* C6 amended: a Resource anchor's context menu contains Add File to Chat
\* exactly when the folder flag is false at menu-open time, and the flag is
\* true exactly when the stat has resolved for a directory; so the action is
\* withheld for a directory only once its stat has resolved.
C6_OfferedUnlessStatFoundDirectory ==
    ( effect.kind = "menu" /\ ~IsSymbol(data[effect.widget[1]]) )
    => LET w == effect.widget[1]
       IN  /\ (AddFileToChatAction.id \in effect.detail.actions)
                <=> ~context[w].explorerResourceIsFolder
           /\ context[w].explorerResourceIsFolder
                <=> (stat[w] = "resolved" /\ data[w].uri \in Directories)

C6_Witness ==
    /\ effect.kind = "menu"
    /\ ~IsSymbol(data[effect.widget[1]])
    /\ data[effect.widget[1]].uri \in Directories
    /\ stat[effect.widget[1]] = "resolved"
    /\ AddFileToChatAction.id \notin effect.detail.actions

\* C7: once a widget is disposed, no click, contextmenu, dragstart or
\* provider change runs one of its handlers, and a second dispose() changes
\* nothing.
C7_NoListenerOutlivesWidget ==
    [][ \A w \in isDisposed :
            /\ context'[w] = context[w]
            /\ anchorId'[w] = anchorId[w]
            /\ active'[w] = active[w]
            /\ ( /\ effect'.widget = <<w>>
                 /\ effect'.op \in {"click", "contextmenu", "dragstart"} )
               => effect'.kind = "none"
            /\ Dispose(w) =>
                 UNCHANGED << inlineReference, data, element, context, active,
                              store, isDisposed, stat, anchorId,
                              lastFocusedAnchor, uuidCount >> ]_vars

C7_Witness ==
    /\ effect.op = "click"
    /\ effect.widget[1] \in isDisposed
    /\ effect.kind = "none"
    /\ active[effect.widget[1]] = {}

\* C8: the tracked anchor is absent or a widget that is not disposed; in
\* particular, once dispose() of a widget has returned the tracker does
\* not hold that widget.
C8_TrackerNeverDangles ==
    [][ ( effect'.op = "dispose" /\ lastFocusedAnchor' # <<>> )
        => lastFocusedAnchor'[1] \in Widgets \ isDisposed' ]_vars

\* C9 as stated: the data-href of a Symbol anchor is the location's uri
\* with no fragment added.
C9_SymbolHrefHasNoFragment ==
    \A w \in Widgets :
        IsSymbol(data[w]) =>
            element[w].dataHref = UriToString(data[w].symbol.location.uri)

\* C9 amended: the data-href of a Symbol anchor is the location's uri with
\* the fragment "<startLine>-<endLine>" of the location's range.
C9_SymbolHrefCarriesRangeFragment ==
    \A w \in Widgets :
        IsSymbol(data[w]) =>
            LET loc == data[w].symbol.location
            IN  /\ element[w].dataHref =
                     UriToString([loc.uri EXCEPT !.fragment = ""]) \o "#"
                        \o ToString(loc.range.startLineNumber) \o "-"
                        \o ToString(loc.range.endLineNumber)
                /\ inlineReference[w] = FooSymbol =>
                     element[w].dataHref = "file:///a/b.txt#7-8"

C9_Witness ==
    \E w \in Widgets :
        /\ inlineReference[w] = FooSymbol
        /\ element[w].dataHref = "file:///a/b.txt#7-8"

\* C10: a Resource reference without a range is labelled with its base name
\* and linked with an empty fragment; with a range it is labelled
\* "<basename>#<startLine>-<endLine>" and linked with the fragment
\* "<startLine>-<endLine>".
C10_ResourceLabelAndFragment ==
    \A w \in Widgets :
        ~IsSymbol(data[w]) =>
            LET d    == data[w]
                base == d.uri.path[IF d.uri.path[Len(d.uri.path)] = ""
                                   THEN Len(d.uri.path) - 1 ELSE Len(d.uri.path)]
                bare == UriToString([d.uri EXCEPT !.fragment = ""])
                span == ToString(d.range.startLineNumber) \o "-"
                            \o ToString(d.range.endLineNumber)
            IN  /\ "range" \notin DOMAIN d =>
                     /\ element[w].iconLabel = base
                     /\ element[w].dataHref = bare
                /\ "range" \in DOMAIN d =>
                     /\ element[w].iconLabel = base \o "#" \o span
                     /\ element[w].dataHref = bare \o "#" \o span
                /\ inlineReference[w] = [uri |-> FileUri, range |-> LineRange] =>
                     /\ element[w].iconLabel = "b.txt#3-5"
                     /\ element[w].dataHref = "file:///a/b.txt#3-5"
                /\ inlineReference[w] = FileUri =>
                     /\ element[w].iconLabel = "b.txt"
                     /\ element[w].dataHref = "file:///a/b.txt"

C10_Witness ==
    \E w \in Widgets :
        /\ inlineReference[w] = [uri |-> FileUri, range |-> LineRange]
        /\ element[w].iconLabel = "b.txt#3-5"

\* C11 as stated: for a live Symbol anchor that listens to the registries,
\* the definition flag equals whether a definition provider is registered
\* for the location's document; for one whose model was not loaded at
\* construction the flag is false, whatever the context around it.
C11_DefinitionFlagAlwaysCurrent ==
    \A w \in Widgets \ isDisposed :
        IsSymbol(data[w]) =>
            IF "definitionProvider.onDidChange" \in active[w]
            THEN context[w].editorHasDefinitionProvider
                    = (LocationOf(data[w]).uri \in definitionProvider)
            ELSE \A ambient \in AmbientContexts :
                    ~ContextValue(w, "editorHasDefinitionProvider", ambient)

\* C11 amended: for a live Symbol anchor, while the text model its
\* constructor got is not disposed the flag equals whether a definition
\* provider is registered for the document; from the step that disposes
\* that model on, the flag keeps the value it had, also when a new model
\* of the document is created; an anchor whose constructor got no model
\* never binds the flag in its scope.
C11_DefinitionFlagCurrentWhileModelLives ==
    /\ [](\A w \in Widgets \ isDisposed :
            IsSymbol(data[w]) =>
              /\ model[w] = "live" =>
                    context[w].editorHasDefinitionProvider
                        = (LocationOf(data[w]).uri \in definitionProvider)
              /\ model[w] = "none" =>
                    "editorHasDefinitionProvider" \notin DOMAIN context[w]
              /\ model[w] = "disposed" =>
                    "editorHasDefinitionProvider" \in DOMAIN context[w])
    /\ [][ \A w \in Widgets :
             ( IsSymbol(data[w]) /\ model'[w] = "disposed" )
             => context'[w].editorHasDefinitionProvider
                  = context[w].editorHasDefinitionProvider ]_vars

\* A definition provider was registered after the captured model was
\* disposed and a new model of the document created: the flag is stale.
C11_Witness ==
    /\ effect.op = "definitionProvider.onDidChange"
    /\ \E w \in Widgets \ isDisposed :
          /\ IsSymbol(data[w])
          /\ "definitionProvider.onDidChange" \in active[w]
          /\ model[w] = "disposed"
          /\ GetModel(LocationOf(data[w]).uri)
          /\ LocationOf(data[w]).uri \in definitionProvider
          /\ ~context[w].editorHasDefinitionProvider

\* The other case: the captured model lives and the flag follows.
C11_Current ==
    /\ effect.op = "definitionProvider.onDidChange"
    /\ \E w \in Widgets \ isDisposed :
          /\ IsSymbol(data[w])
          /\ model[w] = "live"
          /\ LocationOf(data[w]).uri \in definitionProvider
          /\ context[w].editorHasDefinitionProvider

\* C12: a failed stat is swallowed: it surfaces no error and changes
\* nothing but the stat's own outcome, the folder flag stays at its default,
\* and a later click, context menu or drag on the live widget does what it
\* did while the stat was pending.
C12_StatFailureSwallowed ==
    [][ \A w \in Widgets :
            /\ StatReject(w) =>
                 /\ effect'.kind = "none"
                 /\ UNCHANGED << inlineReference, data, element, context,
                                 active, store, isDisposed, anchorId,
                                 lastFocusedAnchor, uuidCount >>
            /\ stat[w] = "rejected" =>
                 /\ ~context'[w].explorerResourceIsFolder
                 /\ ( effect'.widget = <<w>> /\ w \notin isDisposed ) =>
                      /\ effect'.op = "click" => effect'.kind = "telemetry"
                      /\ effect'.op = "dragstart" => effect'.kind = "drag"
                      /\ effect'.op = "contextmenu" =>
                           /\ effect'.kind = "menu"
                           /\ effect'.detail.actions = {AddFileToChatAction.id} ]_vars

C12_Witness ==
    /\ effect.kind = "menu"
    /\ stat[effect.widget[1]] = "rejected"
    /\ data[effect.widget[1]].uri \in Directories
    /\ ~context[effect.widget[1]].explorerResourceIsFolder
    /\ AddFileToChatAction.id \in effect.detail.actions

\* C13: the anchor identity is absent until the first click on a live
\* widget and never changes afterwards; a handled click emits the event
\* named after the variant carrying that identity, and changes nothing else.
C13_AnchorIdLazyAndStable ==
    [][ \A w \in Widgets :
            /\ anchorId'[w] # anchorId[w] =>
                 /\ Click(w)
                 /\ "click" \in active[w]
                 /\ anchorId[w] = <<>>
            /\ Click(w) =>
                 /\ UNCHANGED << inlineReference, data, element, context,
                                 active, store, isDisposed, stat,
                                 lastFocusedAnchor, modelState,
                                 definitionProvider, referenceProvider >>
                 /\ "click" \in active[w] =>
                      /\ effect'.kind = "telemetry"
                      /\ anchorId'[w] # <<>>
                      /\ effect'.detail.anchorId = anchorId'[w][1]
                      /\ effect'.detail.event =
                           (IF "name" \in DOMAIN inlineReference[w]
                            THEN "chat.inlineAnchor.openSymbol"
                            ELSE "chat.inlineAnchor.openResource") ]_vars

C13_Witness ==
    /\ effect.op = "click"
    /\ effect.kind = "telemetry"
    /\ effect.detail.event = "chat.inlineAnchor.openSymbol"
    /\ anchorId[effect.widget[1]] = <<effect.detail.anchorId>>

\* C14: a widget any handler can run for (a listener attached, a stat in
\* flight) or has run for is fully initialized: its reference is classified
\* into exactly one variant and its label, icon classes and link target are
\* written.
C14_HandlersSeeInitializedWidget ==
    \A w \in Widgets :
        ( \/ active[w] # {}
          \/ stat[w] = "pending"
          \/ effect.widget = <<w>> )
        => /\ w \in DOMAIN element
           /\ ("kind" \in DOMAIN data[w]) # ("uri" \in DOMAIN data[w])
           /\ element[w].iconLabel # ""
           /\ element[w].iconClasses # <<>>
           /\ element[w].dataHref # ""
           /\ "chat-inline-anchor-widget" \in element[w].classList

C14_Witness ==
    /\ effect.op = "stat.then"
    /\ "click" \in active[effect.widget[1]]
    /\ anchorId[effect.widget[1]] # <<>>
    /\ element[effect.widget[1]].iconLabel = "b.txt#3-5"

\* C15: once a widget is constructed, no step changes its payload, its
\* classified data or what was written to its element; of its scoped
\* context only the two provider flags and the folder flag may change.
C15_DisplayDataComputedOnce ==
    [][ \A w \in Widgets :
            /\ inlineReference'[w] = inlineReference[w]
            /\ data'[w] = data[w]
            /\ element'[w].iconLabel = element[w].iconLabel
            /\ element'[w].iconClasses = element[w].iconClasses
            /\ element'[w].dataHref = element[w].dataHref
            /\ element'[w] = element[w]
            /\ DOMAIN context'[w] = DOMAIN context[w]
            /\ \A key \in DOMAIN context[w] \
                    { "editorHasDefinitionProvider", "editorHasReferenceProvider",
                      "explorerResourceIsFolder" } :
                  context'[w][key] = context[w][key] ]_vars

C15_Witness ==
    /\ effect.op = "stat.then"
    /\ context[effect.widget[1]].explorerResourceIsFolder
    /\ element[effect.widget[1]].iconClasses = <<"file-icon", "lib-name-file-icon">>
    /\ element[effect.widget[1]].iconLabel = "lib"

C17_CommandOnlyAfterEditorOpened ==
    [][ /\ ( ( \/ effect'.kind = "DefinitionAction.run"
                \/ /\ effect'.kind = "executeCommand"
                   /\ effect'.detail.command = "editor.action.goToReferences" )
             => \E i \in DOMAIN openEditor :
                  /\ openEditor' = Remove(openEditor, i)
                  /\ openEditor[i].action = effect'.op
                  /\ IF effect'.kind = "executeCommand"
                     THEN /\ effect'.op = "chat.inlineSymbolAnchor.goToReferences"
                          /\ effect'.detail.args = <<>>
                     ELSE /\ effect'.op = "chat.inlineSymbolAnchor.goToDefinition"
                          /\ ~effect'.detail.openToSide
                          /\ ~effect'.detail.openInPeek
                          /\ effect'.detail.muteMessage )
        /\ ( Len(openEditor') > Len(openEditor)
             => /\ effect.kind = "menu"
                /\ IsSymbol(data[effect.widget[1]])
                /\ effect'.kind = "openCodeEditor"
                /\ openEditor' = Append(openEditor,
                     [ action    |-> effect'.op,
                       resource  |-> data[effect.widget[1]].symbol.location.uri,
                       selection |->
                         [ startColumn |->
                             data[effect.widget[1]].symbol.location.range.startColumn,
                           startLineNumber |->
                             data[effect.widget[1]].symbol.location.range.startLineNumber ] ]) )
        /\ ( effect'.kind = "rejected"
             => /\ Len(openEditor') = Len(openEditor) - 1
                /\ effect'.widget = <<>> ) ]_vars

\* The References request has resolved and its command is invoked while
\* the Definition request is still awaited.
C17_Witness ==
    /\ effect.kind = "executeCommand"
    /\ effect.detail.command = "editor.action.goToReferences"
    /\ Len(openEditor) = 1
    /\ openEditor[1].action = "chat.inlineSymbolAnchor.goToDefinition"
    /\ openEditor[1].resource = FileUri
    /\ openEditor[1].selection = [startColumn |-> 2, startLineNumber |-> 7]

\* C18: a run of Add File to Chat changes no state of the widgets; with
\* no chat widget focused it attaches nothing and raises nothing, and with
\* one focused it makes exactly one attachContext call, of kind 'file',
\* for the uri of the anchor whose menu was showing, at the focused chat
\* widget's location.
C18_AddFileToChatNeedsFocusedChat ==
    [][ effect'.op = "addFileToChat"
        => /\ effect.kind = "menu"
           /\ effect'.widget = effect.widget
           /\ ~IsSymbol(data[effect.widget[1]])
           /\ IF lastFocusedWidget = <<>>
              THEN /\ effect'.kind = "none"
                   /\ effect'.detail = <<>>
              ELSE /\ effect'.kind = "attachContext"
                   /\ effect'.detail =
                        [ key      |-> "file",
                          value    |-> data[effect.widget[1]].uri,
                          location |-> lastFocusedWidget[1] ]
           /\ UNCHANGED << inlineReference, data, element, context, active,
                           store, isDisposed, stat, anchorId,
                           lastFocusedAnchor, lastFocusedWidget,
                           openEditor >> ]_vars

\* The action was picked from the menu of a ranged file reference with no
\* chat widget focused.
C18_Witness ==
    /\ effect.op = "addFileToChat"
    /\ effect.kind = "none"
    /\ lastFocusedWidget = <<>>
    /\ HasRange(data[effect.widget[1]])
    /\ data[effect.widget[1]].uri = FileUri

\* The other case: attached at the location of the focused chat widget.
C18_Attached ==
    /\ effect.op = "addFileToChat"
    /\ effect.kind = "attachContext"
    /\ effect.detail = [key |-> "file", value |-> FileUri, location |-> "editor"]
    /\ HasRange(data[effect.widget[1]])
    /\ lastFocusedWidget = <<"editor">>

\* C19: a Resource widget's folder flag is false for as long as its stat
\* is pending or has failed, whether or not the path ends with a
\* separator; the flag changes only in the step that completes the stat
\* successfully, and then to whether the resource is a directory.
C19_FolderFlagSetOnlyByStat ==
    /\ [](\A w \in Widgets :
            ( ~IsSymbol(data[w]) /\ stat[w] \in {"pending", "rejected"} )
            => ~context[w].explorerResourceIsFolder)
    /\ [][ \A w \in Widgets :
             ( /\ ~IsSymbol(data[w])
               /\ context'[w].explorerResourceIsFolder
                    # context[w].explorerResourceIsFolder )
             => /\ stat[w] = "pending"
                /\ stat'[w] = "resolved"
                /\ effect' = Effect("stat.then", <<w>>, "none", <<>>)
                /\ context'[w].explorerResourceIsFolder
                     = (data[w].uri \in Directories) ]_vars

\* The stat of a directory written with a trailing separator has failed:
\* the widget shows the folder icon, its flag is false and its menu offers
\* Add File to Chat.
C19_Witness ==
    /\ effect.kind = "menu"
    /\ ~IsSymbol(data[effect.widget[1]])
    /\ data[effect.widget[1]].uri = FolderUri
    /\ PathEndsWithSlash(FolderUri)
    /\ element[effect.widget[1]].iconClasses = GetIconClassesForResource(modelState, FolderUri, "FOLDER")
    /\ element[effect.widget[1]].iconClasses # GetIconClassesForResource(modelState, FolderUri, "FILE")
    /\ stat[effect.widget[1]] = "rejected"
    /\ ~context[effect.widget[1]].explorerResourceIsFolder
    /\ AddFileToChatAction.id \in effect.detail.actions

====
